---- MODULE Spec2Model ----
(***************************************************************************)
(* State-machine model of the layout editor in frontend/src/App.tsx.       *)
(*                                                                         *)
(* The React state cells of App() are the variables; every event handler   *)
(* is one atomic action (React flushes the state updates of a discrete     *)
(* event before the next event is handled).  The only deferred work is the *)
(* setTimeout callback of the header paper-size select, which is modelled  *)
(* as its own action taken from a counter of scheduled callbacks.          *)
(*                                                                         *)
(* Numbers are modelled as integers.  A text (item text, prefix, column    *)
(* name, ...) is the sequence of its characters; a Japanese character is   *)
(* written as one element, in ASCII transliteration ("na", "mae").         *)
(* Enumerated values (item type, operator, colour) are strings.            *)
(*                                                                         *)
(* App.tsx carries, after several handlers, residual lines of an earlier   *)
(* revision of the same handler (lines 2, 395-403, 428-443, 939-944).  The *)
(* model follows the revision that owns the code occurring only once in    *)
(* the file (applyLineResize, the pan state, the isPanning effect), i.e.   *)
(* the first of each doubled fragment.                                     *)
(***************************************************************************)
EXTENDS Integers, Sequences, FiniteSets, TLC

VARIABLES paperSize, mode, items, selectedId, pan, isPanning, nextId, timers, lastOp,
          panStartRef,  \* the useRef cell of the pan gesture
          listeners,    \* sets of window mousemove/mouseup listeners installed
          effectDep,    \* isPanning as of the last run of the isPanning effect
          call,         \* a pure function applied to drawn arguments
          result        \* what that application returned

vars == <<paperSize, mode, items, selectedId, pan, isPanning, nextId, timers, lastOp,
          panStartRef, listeners, effectDep, call, result>>

(***************************************************************************)
(* Bounds of the model.                                                    *)
(***************************************************************************)
MaxItems == 2       \* items in the document at a time (editor specification)
MaxLines == 2       \* lines in the document at a time (thickness specification)
MaxResized == 1     \* lines in the document at a time (resize specification)
MaxIds == 3         \* ids generateId hands out in one behaviour
MaxNum == 2         \* largest number typed into a field or reported by a gesture
MaxTimers == 1      \* scheduled, not yet run, reset callbacks
MaxPan == 2         \* largest pan offset, per axis and in either direction
MaxValueLen == 2    \* characters of a condition's compare value
MaxPieces == 6      \* pieces (a brace, a space or a field name) of a placeholder text

(***************************************************************************)
(* Program constants.                                                      *)
(***************************************************************************)
DefaultX == 40
DefaultY == 40
DefaultWidth == 160
DefaultHeight == 60
DefaultLineHeight == 2
DefaultLineThickness == 2
DefaultFontSize == 16
DefaultBorderWidth == 1
DefaultBorderRadius == 4
MinThickness == 1

PaperKeys == {"A4", "A4Landscape", "Letter"}
NoPaper == "null"
Modes == {"edit", "preview"}
CanvasItemTypes == {"text", "data", "rectangle", "line"}
Orientations == {"horizontal", "vertical"}
NoId == 0
NoItem == [id |-> NoId]

\* values a number input can deliver (Number(event.target.value))
NumIn == 0 .. MaxNum
\* values ref.offsetWidth / ref.offsetHeight can deliver
OffsetIn == {0, 1, MaxNum}
\* positions a drag or resize gesture reports (bounds="parent")
Positions == {[x |-> 0, y |-> MaxNum], [x |-> MaxNum, y |-> 0]}

Max(a, b) == IF a >= b THEN a ELSE b

Ids(its) == {its[i].id : i \in DOMAIN its}

\* crypto.randomUUID(): the n-th call returns an id no earlier call returned;
\* a UUID is modelled by its serial number
generateIdConstant(n) == 1
generateId(n) == n

\* {...item, ...payload}
Merge(item, payload) ==
    [f \in DOMAIN item \cup DOMAIN payload |->
        IF f \in DOMAIN payload THEN payload[f] ELSE item[f]]

\* items.find((item) => item.id === selectedId) || null
selectedItemOrFirst(its, sel) ==
    IF \E i \in DOMAIN its : its[i].id = sel
    THEN its[CHOOSE i \in DOMAIN its :
                /\ its[i].id = sel
                /\ \A j \in DOMAIN its : its[j].id = sel => i <= j]
    ELSE IF its # <<>> THEN its[1] ELSE [id |-> 0]
selectedItem(its, sel) ==
    IF \E i \in DOMAIN its : its[i].id = sel
    THEN its[CHOOSE i \in DOMAIN its :
                /\ its[i].id = sel
                /\ \A j \in DOMAIN its : its[j].id = sel => i <= j]
    ELSE NoItem

BaseItem(id, type) ==
    [id |-> id, type |-> type, x |-> DefaultX, y |-> DefaultY,
     width |-> DefaultWidth, height |-> DefaultHeight]

NewItem(id, type) ==
    CASE type = "text" ->
            Merge(BaseItem(id, type),
                  [text |-> <<"te", "ki", "su", "to">>, fontSize |-> DefaultFontSize,
                   bold |-> FALSE, align |-> "left"])
      [] type = "data" ->
            Merge(BaseItem(id, type),
                  [column |-> <<>>, fontSize |-> DefaultFontSize, bold |-> FALSE,
                   align |-> "left", prefix |-> <<>>, suffix |-> <<>>,
                   emptyFallback |-> <<"(", "mi", "settei", ")">>,
                   condition |-> [enabled |-> FALSE, column |-> <<"na", "mae">>,
                                  operator |-> "equals", value |-> <<>>,
                                  trueText |-> <<>>, falseText |-> <<>>]])
      [] type = "rectangle" ->
            Merge(BaseItem(id, type),
                  [background |-> "#f5f5f5", borderColor |-> "#999999",
                   borderWidth |-> DefaultBorderWidth,
                   borderRadius |-> DefaultBorderRadius])
      [] type = "line" ->
            Merge(BaseItem(id, type),
                  [height |-> DefaultLineHeight, thickness |-> DefaultLineThickness,
                   orientation |-> "horizontal", color |-> "#333333"])

\* handleAddItem: the new items and selection, for the id generateId returned
handleAddItemNoGuard(its, sel, paper, type, id) ==
    [items |-> Append(its, NewItem(id, type)), selectedId |-> id]
handleAddItemNoSelect(its, sel, paper, type, id) ==
    IF paper = NoPaper THEN [items |-> its, selectedId |-> sel]
    ELSE [items |-> Append(its, NewItem(id, type)), selectedId |-> sel]
handleAddItem(its, sel, paper, type, id) ==
    IF paper = NoPaper THEN [items |-> its, selectedId |-> sel]
    ELSE [items |-> Append(its, NewItem(id, type)), selectedId |-> id]

\* handleItemUpdate
handleItemUpdateToFront(its, id, payload) ==
    SelectSeq(its, LAMBDA item : item.id # id)
        \o [i \in DOMAIN SelectSeq(its, LAMBDA item : item.id = id) |->
                Merge(SelectSeq(its, LAMBDA item : item.id = id)[i], payload)]
handleItemUpdateAll(its, id, payload) ==
    [i \in DOMAIN its |-> Merge(its[i], payload)]
handleItemUpdate(its, id, payload) ==
    [i \in DOMAIN its |-> IF its[i].id = id THEN Merge(its[i], payload) ELSE its[i]]

\* the payload applyLineResize hands to handleItemUpdate
applyLineResizeNoClamp(target, nextWidth, nextHeight, position) ==
    LET rawThickness == IF target.orientation = "horizontal" THEN nextHeight ELSE nextWidth
        thickness == rawThickness
    IN  [width |-> IF target.orientation = "horizontal" THEN nextWidth ELSE thickness,
         height |-> IF target.orientation = "horizontal" THEN thickness ELSE nextHeight,
         x |-> position.x, y |-> position.y, thickness |-> thickness]
applyLineResize(target, nextWidth, nextHeight, position) ==
    LET rawThickness == IF target.orientation = "horizontal" THEN nextHeight ELSE nextWidth
        thickness == Max(rawThickness, MinThickness)
    IN  [width |-> IF target.orientation = "horizontal" THEN nextWidth ELSE thickness,
         height |-> IF target.orientation = "horizontal" THEN thickness ELSE nextHeight,
         x |-> position.x, y |-> position.y, thickness |-> thickness]

\* handleDelete: the new items and selection
handleDeleteKeepSelection(its, sel, id) ==
    [items |-> SelectSeq(its, LAMBDA item : item.id # id), selectedId |-> sel]
handleDelete(its, sel, id) ==
    [items |-> SelectSeq(its, LAMBDA item : item.id # id),
     selectedId |-> IF sel = id THEN NoId ELSE sel]

\* the payload of the line thickness editor
thicknessPayload(sel, thickness) ==
    [thickness |-> thickness,
     height |-> IF sel.orientation = "horizontal" THEN thickness ELSE sel.height,
     width |-> IF sel.orientation = "vertical" THEN thickness ELSE sel.width]

\* the payload of the line orientation editor
orientationPayload(sel, orientation) ==
    LET currentLength == IF sel.orientation = "horizontal" THEN sel.width ELSE sel.height
        currentThickness == IF sel.orientation = "horizontal" THEN sel.height ELSE sel.width
    IN  [orientation |-> orientation,
         width |-> IF orientation = "horizontal" THEN currentLength ELSE currentThickness,
         height |-> IF orientation = "vertical" THEN currentLength ELSE currentThickness,
         thickness |-> Max(currentThickness, MinThickness)]

(***************************************************************************)
(* The sample record and the preview text functions.                       *)
(***************************************************************************)
Namae == <<"na", "mae">>
Nenrei == <<"nen", "rei">>
Seibetsu == <<"sei", "betsu">>
Juusho == <<"juu", "sho">>

\* Object.keys(DB_SAMPLE)
dbColumns == <<Namae, Nenrei, Seibetsu, Juusho>>

isDbColumn(value) == \E i \in DOMAIN dbColumns : dbColumns[i] = value

Undefined == [kind |-> "undefined"]
Str(t) == [kind |-> "string", str |-> t]
Num(n) == [kind |-> "number", num |-> n]

\* DB_SAMPLE[key]
DB_SAMPLE(key) ==
    CASE key = Namae -> Str(<<"yama", "da", " ", "ta", "rou">>)
      [] key = Nenrei -> Num(32)
      [] key = Seibetsu -> Str(<<"dan", "sei">>)
      [] key = Juusho -> Str(<<"tou", "kyou", "to", "chi", "yo", "da", "ku",
                               "maru", "no", "uchi", "1", "-", "1", "-", "1">>)
      [] OTHER -> Undefined

DigitChars == <<"0", "1", "2", "3", "4", "5", "6", "7", "8", "9">>

\* String(n) of a non-negative integer
RECURSIVE NumberToString(_)
NumberToString(n) ==
    IF n < 10 THEN <<DigitChars[n + 1]>>
    ELSE NumberToString(n \div 10) \o <<DigitChars[(n % 10) + 1]>>

\* String(value) of a record value
String(v) == IF v.kind = "number" THEN NumberToString(v.num) ELSE v.str

\* source.includes(target)
includes(source, target) ==
    \E k \in 0 .. (Len(source) - Len(target)) :
        SubSeq(source, k + 1, k + Len(target)) = target

\* a string or null
Null == [some |-> FALSE]
Some(t) == [some |-> TRUE, text |-> t]

\* evaluateCondition
evaluateConditionContainsReversed(dataItem) ==
    LET condition == dataItem.condition
    IN  IF ~condition.enabled \/ condition.column = <<>> THEN Null
        ELSE LET sourceValue == IF DB_SAMPLE(condition.column) = Undefined THEN <<>>
                                ELSE String(DB_SAMPLE(condition.column))
                 target == condition.value
                 matched == CASE condition.operator = "equals" -> sourceValue = target
                              [] condition.operator = "notEquals" -> sourceValue # target
                              [] condition.operator = "contains" -> includes(target, sourceValue)
                              [] OTHER -> FALSE
             IN  Some(IF matched THEN condition.trueText ELSE condition.falseText)
evaluateCondition(dataItem) ==
    LET condition == dataItem.condition
    IN  IF ~condition.enabled \/ condition.column = <<>> THEN Null
        ELSE LET sourceValue == IF DB_SAMPLE(condition.column) = Undefined THEN <<>>
                                ELSE String(DB_SAMPLE(condition.column))
                 target == condition.value
                 matched == CASE condition.operator = "equals" -> sourceValue = target
                              [] condition.operator = "notEquals" -> sourceValue # target
                              [] condition.operator = "contains" -> includes(sourceValue, target)
                              [] OTHER -> FALSE
             IN  Some(IF matched THEN condition.trueText ELSE condition.falseText)

\* String.prototype.trim (the texts here hold no white space but " ")
RECURSIVE trimStart(_)
trimStart(s) == IF s # <<>> /\ Head(s) = " " THEN trimStart(Tail(s)) ELSE s
RECURSIVE trimEnd(_)
trimEnd(s) ==
    IF s # <<>> /\ s[Len(s)] = " " THEN trimEnd(SubSeq(s, 1, Len(s) - 1)) ELSE s
trimNone(s) == s
trim(s) == trimEnd(trimStart(s))

Braces == {"{", "}"}

\* the end of the match of /\{([^{}]+)\}/ that starts at i, 0 if there is none
matchEnd(text, i) ==
    IF text[i] # "{" THEN 0
    ELSE LET stops == {j \in (i + 1) .. Len(text) : text[j] \in Braces}
         IN  IF stops = {} THEN 0
             ELSE LET j == CHOOSE k \in stops : \A m \in stops : k <= m
                  IN  IF text[j] = "}" /\ j > i + 1 THEN j ELSE 0

\* the replacer callback of injectDbPlaceholders
replacer(rawKey) ==
    LET key == trim(rawKey)
    IN  IF isDbColumn(key)
        THEN LET recordValue == DB_SAMPLE(key)
             IN  IF recordValue.kind \notin {"undefined", "null"}
                 THEN String(recordValue) ELSE <<>>
        ELSE <<"{">> \o rawKey \o <<"}">>

\* text.replace(/\{([^{}]+)\}/g, replacer) from position i on
RECURSIVE replaceFrom(_, _)
replaceFrom(text, i) ==
    IF i > Len(text) THEN <<>>
    ELSE LET j == matchEnd(text, i)
         IN  IF j = 0 THEN <<text[i]>> \o replaceFrom(text, i + 1)
             ELSE replacer(SubSeq(text, i + 1, j - 1)) \o replaceFrom(text, j + 1)

\* injectDbPlaceholders
injectDbPlaceholders(text) == replaceFrom(text, 1)

NullValue == [kind |-> "null"]

\* renderPreviewText
renderPreviewTextValueFirst(item) ==
    LET value == IF item.column # <<>> THEN DB_SAMPLE(item.column) ELSE NullValue
        evaluated == evaluateCondition(item)
    IN  IF ~(value.kind \in {"null", "undefined"} \/ (value.kind = "string" /\ value.str = <<>>))
        THEN item.prefix \o String(value) \o item.suffix
        ELSE IF evaluated.some /\ evaluated.text # <<>> THEN evaluated.text
        ELSE item.emptyFallback
renderPreviewTextEmptyResult(item) ==
    LET value == IF item.column # <<>> THEN DB_SAMPLE(item.column) ELSE NullValue
        evaluated == evaluateCondition(item)
    IN  IF evaluated.some THEN evaluated.text
        ELSE IF value.kind \in {"null", "undefined"}
                \/ (value.kind = "string" /\ value.str = <<>>)
        THEN item.emptyFallback
        ELSE item.prefix \o String(value) \o item.suffix
renderPreviewText(item) ==
    LET value == IF item.column # <<>> THEN DB_SAMPLE(item.column) ELSE NullValue
        evaluated == evaluateCondition(item)
    IN  IF evaluated.some /\ evaluated.text # <<>> THEN evaluated.text
        ELSE IF value.kind \in {"null", "undefined"}
                \/ (value.kind = "string" /\ value.str = <<>>)
        THEN item.emptyFallback
        ELSE item.prefix \o String(value) \o item.suffix

\* the isPanning effect (useEffect with deps [isPanning]): when the committed
\* isPanning differs from the one of its last run, the cleanup of that run
\* removes the listeners it installed, and the new run installs a set if
\* isPanning is true
panEffectNoCleanup(installed, dep, panning) ==
    IF dep = panning THEN installed
    ELSE IF panning THEN installed + 1 ELSE installed
panEffect(installed, dep, panning) ==
    IF dep = panning THEN installed
    ELSE LET cleaned == IF dep THEN installed - 1 ELSE installed
         IN  IF panning THEN cleaned + 1 ELSE cleaned

\* the render an event handler causes runs the pending effects
FlushEffects ==
    /\ listeners' = panEffect(listeners, effectDep, isPanning')
    /\ effectDep' = isPanning'

NoCall == [fn |-> "none"]
NoResult == [done |-> FALSE]

StateInit ==
    /\ paperSize = NoPaper
    /\ mode = "edit"
    /\ items = <<>>
    /\ selectedId = NoId
    /\ pan = [x |-> 0, y |-> 0]
    /\ isPanning = FALSE
    /\ nextId = 1
    /\ timers = 0
    /\ lastOp = [name |-> "init", id |-> NoId]
    /\ panStartRef = [x |-> 0, y |-> 0, panX |-> 0, panY |-> 0]
    /\ listeners = 0
    /\ effectDep = FALSE

Init ==
    /\ StateInit
    /\ call = NoCall
    /\ result = NoResult

\* the state the setTimeout callback of the header paper select writes
resetCallbackKeepSelection == [items |-> <<>>, selectedId |-> selectedId,
                              pan |-> [x |-> 0, y |-> 0], isPanning |-> FALSE]
resetCallback == [items |-> <<>>, selectedId |-> NoId,
                  pan |-> [x |-> 0, y |-> 0], isPanning |-> FALSE]

\* the edit workspace (canvas, add buttons, property panel) is rendered
EditView == mode = "edit" /\ paperSize # NoPaper

ItemById(id) == selectedItem(items, id)

(***************************************************************************)
(* Paper size: the blocking overlay select, the header select and the      *)
(* reset callback the header select schedules.                             *)
(***************************************************************************)
OverlaySelectPaper(k) ==
    /\ paperSize = NoPaper
    /\ paperSize' = k
    /\ lastOp' = [name |-> "overlayPaper", id |-> NoId, paper |-> k]
    /\ UNCHANGED <<mode, items, selectedId, pan, isPanning, nextId, timers, panStartRef, call, result>>
    /\ FlushEffects

HeaderSelectPaper(k) ==
    /\ k # paperSize
    /\ timers < MaxTimers
    /\ paperSize' = k
    /\ timers' = timers + 1
    /\ lastOp' = [name |-> "headerPaper", id |-> NoId, paper |-> k]
    /\ UNCHANGED <<mode, items, selectedId, pan, isPanning, nextId, panStartRef, call, result>>
    /\ FlushEffects

ResetTimeout ==
    /\ timers > 0
    /\ timers' = timers - 1
    /\ items' = resetCallback.items
    /\ selectedId' = resetCallback.selectedId
    /\ pan' = resetCallback.pan
    /\ isPanning' = resetCallback.isPanning
    /\ lastOp' = [name |-> "resetTimeout", id |-> NoId]
    /\ UNCHANGED <<paperSize, mode, nextId, panStartRef, listeners, effectDep, call, result>>

\* the state resetDocument writes
resetDocumentKeepSelection == [items |-> <<>>, selectedId |-> selectedId,
                               pan |-> [x |-> 0, y |-> 0], isPanning |-> FALSE]
resetDocument == [items |-> <<>>, selectedId |-> NoId,
                  pan |-> [x |-> 0, y |-> 0], isPanning |-> FALSE]

\* the "reset layout" button
ResetDocument ==
    /\ items' = resetDocument.items
    /\ selectedId' = resetDocument.selectedId
    /\ pan' = resetDocument.pan
    /\ isPanning' = resetDocument.isPanning
    /\ lastOp' = [name |-> "resetDocument", id |-> NoId, count |-> Len(items)]
    /\ UNCHANGED <<paperSize, mode, nextId, timers, panStartRef, call, result>>
    /\ FlushEffects

SetMode(m) ==
    /\ mode' = m
    /\ lastOp' = [name |-> "setMode", id |-> NoId, mode |-> m]
    /\ UNCHANGED <<paperSize, items, selectedId, pan, isPanning, nextId, timers, panStartRef, call, result>>
    /\ FlushEffects

(***************************************************************************)
(* Document operations as the edit view offers them.                       *)
(***************************************************************************)
AddItem(type, cap) ==
    /\ EditView
    /\ Len(items) < cap
    /\ nextId <= MaxIds
    /\ LET id == generateId(nextId)
           r == handleAddItem(items, selectedId, paperSize, type, id)
       IN  /\ items' = r.items
           /\ selectedId' = r.selectedId
           /\ lastOp' = [name |-> "addItem", id |-> id, type |-> type]
    /\ nextId' = nextId + 1
    /\ UNCHANGED <<paperSize, mode, pan, isPanning, timers, panStartRef, call, result>>
    /\ FlushEffects

\* onMouseDown of a displayed item
Select(id) ==
    /\ EditView
    /\ id \in Ids(items)
    /\ selectedId' = id
    /\ lastOp' = [name |-> "select", id |-> id]
    /\ UNCHANGED <<paperSize, mode, items, pan, isPanning, nextId, timers, panStartRef, call, result>>
    /\ FlushEffects

\* the delete button of the property panel
DeleteSelected ==
    /\ EditView
    /\ selectedItem(items, selectedId) # NoItem
    /\ LET id == selectedItem(items, selectedId).id
           r == handleDelete(items, selectedId, id)
       IN  /\ items' = r.items
           /\ selectedId' = r.selectedId
           /\ lastOp' = [name |-> "delete", id |-> id]
    /\ UNCHANGED <<paperSize, mode, pan, isPanning, nextId, timers, panStartRef, call, result>>
    /\ FlushEffects

(***************************************************************************)
(* Geometry: the Rnd gestures on the canvas and the property editors of    *)
(* the selected item.                                                      *)
(***************************************************************************)
\* onDragStop of any displayed item
DragStop(id, data) ==
    /\ EditView
    /\ id \in Ids(items)
    /\ items' = handleItemUpdate(items, id, [x |-> data.x, y |-> data.y])
    /\ lastOp' = [name |-> "dragStop", id |-> id, x |-> data.x, y |-> data.y]
    /\ UNCHANGED <<paperSize, mode, selectedId, pan, isPanning, nextId, timers, panStartRef, call, result>>
    /\ FlushEffects

\* onResize / onResizeStop of a displayed line item (both call applyLineResize)
LineResize(id, w, h, position) ==
    /\ EditView
    /\ id \in Ids(items)
    /\ ItemById(id).type = "line"
    /\ items' = handleItemUpdate(items, id,
                    applyLineResize(ItemById(id), w, h, position))
    /\ lastOp' = [name |-> "lineResize", id |-> id, width |-> w, height |-> h,
                  x |-> position.x, y |-> position.y]
    /\ UNCHANGED <<paperSize, mode, selectedId, pan, isPanning, nextId, timers, panStartRef, call, result>>
    /\ FlushEffects

\* onResizeStop of a displayed text, data or rectangle item
ResizeStop(id, w, h, position) ==
    /\ EditView
    /\ id \in Ids(items)
    /\ ItemById(id).type # "line"
    /\ items' = handleItemUpdate(items, id,
                    [width |-> w, height |-> h, x |-> position.x, y |-> position.y])
    /\ lastOp' = [name |-> "resizeStop", id |-> id, width |-> w, height |-> h,
                  x |-> position.x, y |-> position.y]
    /\ UNCHANGED <<paperSize, mode, selectedId, pan, isPanning, nextId, timers, panStartRef, call, result>>
    /\ FlushEffects

\* the X, Y, width and height inputs of the property panel
EditField(field, v) ==
    /\ EditView
    /\ selectedItem(items, selectedId) # NoItem
    /\ LET id == selectedItem(items, selectedId).id
       IN  /\ items' = handleItemUpdate(items, id, [f \in {field} |-> v])
           /\ lastOp' = [name |-> "editField", id |-> id, field |-> field, value |-> v]
    /\ UNCHANGED <<paperSize, mode, selectedId, pan, isPanning, nextId, timers, panStartRef, call, result>>
    /\ FlushEffects

\* the thickness input of a selected line
SetThickness(v) ==
    /\ EditView
    /\ selectedItem(items, selectedId) # NoItem
    /\ selectedItem(items, selectedId).type = "line"
    /\ LET sel == selectedItem(items, selectedId)
       IN  /\ items' = handleItemUpdate(items, sel.id, thicknessPayload(sel, v))
           /\ lastOp' = [name |-> "setThickness", id |-> sel.id, value |-> v]
    /\ UNCHANGED <<paperSize, mode, selectedId, pan, isPanning, nextId, timers, panStartRef, call, result>>
    /\ FlushEffects

\* the orientation select of a selected line (onChange: the other option)
SetOrientation(o) ==
    /\ EditView
    /\ selectedItem(items, selectedId) # NoItem
    /\ selectedItem(items, selectedId).type = "line"
    /\ selectedItem(items, selectedId).orientation # o
    /\ LET sel == selectedItem(items, selectedId)
       IN  /\ items' = handleItemUpdate(items, sel.id, orientationPayload(sel, o))
           /\ lastOp' = [name |-> "setOrientation", id |-> sel.id, orientation |-> o]
    /\ UNCHANGED <<paperSize, mode, selectedId, pan, isPanning, nextId, timers, panStartRef, call, result>>
    /\ FlushEffects

(***************************************************************************)
(* The document functions called with an arbitrary id: handleItemUpdate,   *)
(* handleDelete and setSelectedId take any string, whether or not an item  *)
(* carries it.                                                             *)
(***************************************************************************)
AllIds == 1 .. MaxIds

\* payloads handleItemUpdate is called with
Payloads == {[x |-> 0, y |-> MaxNum], [text |-> <<"a">>]}

CallUpdate(id, payload) ==
    /\ items' = handleItemUpdate(items, id, payload)
    /\ lastOp' = [name |-> "updateItem", id |-> id, found |-> id \in Ids(items),
                  payload |-> payload]
    /\ UNCHANGED <<paperSize, mode, selectedId, pan, isPanning, nextId, timers, panStartRef, call, result>>
    /\ FlushEffects

\* handleAddItem called whatever the view and the paper size are; generateId
\* runs only past the activePaper guard
CallAddItem(type) ==
    /\ Len(items) < MaxItems
    /\ nextId <= MaxIds
    /\ LET id == generateId(nextId)
           r == handleAddItem(items, selectedId, paperSize, type, id)
       IN  /\ items' = r.items
           /\ selectedId' = r.selectedId
           /\ lastOp' = [name |-> "handleAddItem", id |-> id, type |-> type,
                         paper |-> paperSize]
    /\ nextId' = IF paperSize = NoPaper THEN nextId ELSE nextId + 1
    /\ UNCHANGED <<paperSize, mode, pan, isPanning, timers, panStartRef, call, result>>
    /\ FlushEffects

CallDelete(id) ==
    /\ LET r == handleDelete(items, selectedId, id)
       IN  /\ items' = r.items
           /\ selectedId' = r.selectedId
    /\ lastOp' = [name |-> "deleteItem", id |-> id, found |-> id \in Ids(items),
                  selected |-> selectedId]
    /\ UNCHANGED <<paperSize, mode, pan, isPanning, nextId, timers, panStartRef, call, result>>
    /\ FlushEffects

CallSelect(id) ==
    /\ selectedId' = id
    /\ lastOp' = [name |-> "setSelectedId", id |-> id]
    /\ UNCHANGED <<paperSize, mode, items, pan, isPanning, nextId, timers, panStartRef, call, result>>
    /\ FlushEffects

(***************************************************************************)
(* Specifications.                                                         *)
(***************************************************************************)
ChoosePaper == \E k \in PaperKeys : OverlaySelectPaper(k)
ChangePaper == \E k \in PaperKeys : HeaderSelectPaper(k)
AddAny == \E t \in CanvasItemTypes : AddItem(t, MaxItems)
AddLine == AddItem("line", MaxLines)
AddResized == AddItem("line", MaxResized)
SelectAny == \E id \in AllIds : Select(id)
SwitchMode == \E m \in Modes : SetMode(m)
Drag == \E id \in AllIds, d \in Positions : DragStop(id, d)
ResizeLine == \E id \in AllIds, w, h \in OffsetIn, p \in Positions : LineResize(id, w, h, p)
ResizeBox == \E id \in AllIds, w, h \in OffsetIn, p \in Positions : ResizeStop(id, w, h, p)
EditGeometry == \E f \in {"x", "y", "width", "height"}, v \in NumIn : EditField(f, v)
EditThickness == \E v \in NumIn : SetThickness(v)
EditOrientation == \E o \in Orientations : SetOrientation(o)
UpdateAny == \E id \in AllIds, p \in Payloads : CallUpdate(id, p)
DeleteAny == \E id \in AllIds : CallDelete(id)
SetSelectedAny == \E id \in AllIds : CallSelect(id)

\* the document lifecycle as the editor offers it
Next ==
    \/ ChoosePaper
    \/ ChangePaper
    \/ ResetTimeout
    \/ ResetDocument
    \/ SwitchMode
    \/ AddAny
    \/ SelectAny
    \/ DeleteSelected

Spec == Init /\ [][Next]_vars

\* the timer task queue runs every scheduled callback
FairSpec == Spec /\ WF_vars(ResetTimeout)

\* a line edited only through its thickness and orientation editors
NextThickness ==
    \/ ChoosePaper
    \/ AddLine
    \/ SelectAny
    \/ EditThickness
    \/ EditOrientation

SpecThickness == Init /\ [][NextThickness]_vars

\* a line resized on the canvas, in both orientations
NextResize ==
    \/ ChoosePaper
    \/ AddResized
    \/ EditOrientation
    \/ ResizeLine

SpecResize == Init /\ [][NextResize]_vars

\* every geometry operation of the edit view, on one line or one rectangle
NextGeometry ==
    \/ ChoosePaper
    \/ AddItem("line", 1)
    \/ AddItem("rectangle", 1)
    \/ DeleteSelected
    \/ Drag
    \/ ResizeLine
    \/ ResizeBox
    \/ EditGeometry
    \/ EditThickness
    \/ EditOrientation

SpecGeometry == Init /\ [][NextGeometry]_vars

\* handleDelete and setSelectedId under arbitrary ids
NextDelete ==
    \/ ChoosePaper
    \/ AddAny
    \/ DeleteAny
    \/ SetSelectedAny

SpecDelete == Init /\ [][NextDelete]_vars

\* handleItemUpdate under arbitrary ids, live, deleted and never created
NextUpdate ==
    \/ OverlaySelectPaper("A4")
    \/ AddItem("text", MaxItems)
    \/ AddItem("line", MaxItems)
    \/ UpdateAny
    \/ DeleteAny

SpecUpdate == Init /\ [][NextUpdate]_vars

\* add, update, move, resize, select and delete on text items
NextOrder ==
    \/ OverlaySelectPaper("A4")
    \/ AddItem("text", MaxItems)
    \/ \E id \in AllIds : CallUpdate(id, [text |-> <<"a">>])
    \/ \E id \in AllIds : DragStop(id, [x |-> MaxNum, y |-> 0])
    \/ \E id \in AllIds : ResizeStop(id, MaxNum, MaxNum, [x |-> 0, y |-> MaxNum])
    \/ SelectAny
    \/ DeleteSelected

SpecOrder == Init /\ [][NextOrder]_vars

CallAddAny == \E t \in CanvasItemTypes : CallAddItem(t)

\* the document lifecycle with handleAddItem callable before a paper size is chosen
NextAdd ==
    \/ ChoosePaper
    \/ ChangePaper
    \/ ResetTimeout
    \/ ResetDocument
    \/ SwitchMode
    \/ CallAddAny
    \/ SelectAny
    \/ DeleteSelected

SpecAdd == Init /\ [][NextAdd]_vars

(***************************************************************************)
(* Panning the canvas: mouse down on the canvas surface, and the window's  *)
(* mousemove and mouseup listeners the isPanning effect installs.          *)
(***************************************************************************)
CanvasMouseDown(p) ==
    /\ EditView
    /\ isPanning' = TRUE
    /\ panStartRef' = [x |-> p.x, y |-> p.y, panX |-> pan.x, panY |-> pan.y]
    /\ lastOp' = [name |-> "canvasMouseDown", id |-> NoId]
    /\ UNCHANGED <<paperSize, mode, items, selectedId, pan, nextId, timers, call, result>>
    /\ FlushEffects

handleMouseMove(p) ==
    /\ listeners > 0
    /\ LET deltaX == p.x - panStartRef.x
           deltaY == p.y - panStartRef.y
       IN  pan' = [x |-> panStartRef.panX + deltaX, y |-> panStartRef.panY + deltaY]
    /\ pan'.x \in -MaxPan .. MaxPan
    /\ pan'.y \in -MaxPan .. MaxPan
    /\ lastOp' = [name |-> "mouseMove", id |-> NoId]
    /\ UNCHANGED <<paperSize, mode, items, selectedId, isPanning, nextId, timers,
                   panStartRef, call, result>>
    /\ FlushEffects

handleMouseUp ==
    /\ listeners > 0
    /\ isPanning' = FALSE
    /\ lastOp' = [name |-> "mouseUp", id |-> NoId]
    /\ UNCHANGED <<paperSize, mode, items, selectedId, pan, nextId, timers,
                   panStartRef, call, result>>
    /\ FlushEffects

\* the effect of the render that followed the reset callback
FlushPending ==
    /\ effectDep # isPanning
    /\ lastOp' = [name |-> "flushEffects", id |-> NoId]
    /\ UNCHANGED <<paperSize, mode, items, selectedId, pan, isPanning, nextId, timers,
                   panStartRef, call, result>>
    /\ FlushEffects

StartPan == \E p \in Positions : CanvasMouseDown(p)
MovePan == \E p \in Positions : handleMouseMove(p)

NextPan ==
    \/ OverlaySelectPaper("A4")
    \/ ChangePaper
    \/ ResetTimeout
    \/ FlushPending
    \/ ResetDocument
    \/ SwitchMode
    \/ AddItem("text", 1)
    \/ StartPan
    \/ MovePan
    \/ handleMouseUp

SpecPan == Init /\ [][NextPan]_vars

(***************************************************************************)
(* The preview text functions applied to arguments drawn from bounded      *)
(* sets.                                                                   *)
(***************************************************************************)
RECURSIVE TextsUpTo(_, _)
TextsUpTo(chars, n) ==
    IF n = 0 THEN {<<>>}
    ELSE LET shorter == TextsUpTo(chars, n - 1)
         IN  shorter \cup {Append(t, c) : t \in shorter, c \in chars}

\* a column of the record, no column (''), or a name the record does not have
ColumnValues == {dbColumns[i] : i \in DOMAIN dbColumns} \cup {<<>>, <<"x">>}
Operators == {"equals", "notEquals", "contains"}
MrText == <<"M", "r", ".">>
MsText == <<"M", "s", ".">>

ConditionArgs ==
    [enabled : BOOLEAN, column : ColumnValues, operator : Operators,
     value : TextsUpTo({"dan", "sei", "3", "2", "x"}, MaxValueLen),
     trueText : {<<>>, MrText}, falseText : {<<>>, MsText}]

InitCondition ==
    /\ StateInit
    /\ call \in {[fn |-> "evaluateCondition",
                   item |-> Merge(NewItem(1, "data"), [condition |-> c])] :
                        c \in ConditionArgs}
    /\ result = NoResult

ApplyEvaluateCondition ==
    /\ call.fn = "evaluateCondition"
    /\ ~result.done
    /\ result' = [done |-> TRUE, value |-> evaluateCondition(call.item)]
    /\ UNCHANGED <<paperSize, mode, items, selectedId, pan, isPanning, nextId, timers,
                   lastOp, panStartRef, listeners, effectDep, call>>

SpecCondition == InitCondition /\ [][ApplyEvaluateCondition]_vars

RECURSIVE Flatten(_)
Flatten(pieces) == IF pieces = <<>> THEN <<>> ELSE Head(pieces) \o Flatten(Tail(pieces))

\* texts made of braces, spaces and two field names
PlaceholderTexts ==
    {Flatten(ps) : ps \in TextsUpTo({<<"{">>, <<"}">>, <<" ">>, Namae, Nenrei}, MaxPieces)}

InitPlaceholders ==
    /\ StateInit
    /\ call \in {[fn |-> "injectDbPlaceholders", text |-> t] : t \in PlaceholderTexts}
    /\ result = NoResult

ApplyInjectDbPlaceholders ==
    /\ call.fn = "injectDbPlaceholders"
    /\ ~result.done
    /\ result' = [done |-> TRUE, value |-> injectDbPlaceholders(call.text)]
    /\ UNCHANGED <<paperSize, mode, items, selectedId, pan, isPanning, nextId, timers,
                   lastOp, panStartRef, listeners, effectDep, call>>

SpecPlaceholders == InitPlaceholders /\ [][ApplyInjectDbPlaceholders]_vars

FallbackText == <<"N", "/", "A">>

RenderConditionArgs ==
    [enabled : BOOLEAN, column : {<<>>, Seibetsu, Nenrei}, operator : Operators,
     value : TextsUpTo({"dan", "sei"}, MaxValueLen),
     trueText : {<<>>, MrText}, falseText : {<<>>, MsText}]

RenderArgs ==
    {Merge(NewItem(1, "data"),
           [column |-> col, prefix |-> pre, suffix |-> suf, emptyFallback |-> fb,
            condition |-> c]) :
        col \in ColumnValues, pre \in {<<>>, <<"[">>}, suf \in {<<>>, <<"]">>},
        fb \in {<<>>, FallbackText}, c \in RenderConditionArgs}

InitRender ==
    /\ StateInit
    /\ call \in {[fn |-> "renderPreviewText", item |-> item] : item \in RenderArgs}
    /\ result = NoResult

ApplyRenderPreviewText ==
    /\ call.fn = "renderPreviewText"
    /\ ~result.done
    /\ result' = [done |-> TRUE, value |-> renderPreviewText(call.item)]
    /\ UNCHANGED <<paperSize, mode, items, selectedId, pan, isPanning, nextId, timers,
                   lastOp, panStartRef, listeners, effectDep, call>>

SpecRender == InitRender /\ [][ApplyRenderPreviewText]_vars

(***************************************************************************)
(* Properties.                                                             *)
(***************************************************************************)
Lines == {items[i] : i \in {j \in DOMAIN items : items[j].type = "line"}}

\* C1: after every setThickness / setOrientation call on a line, a horizontal
\* line has height = thickness, a vertical line has width = thickness, and
\* thickness >= 1.  (Checked under SpecThickness.)
C1_ThicknessInvariant ==
    \A l \in Lines :
        /\ l.orientation = "horizontal" => l.height = l.thickness
        /\ l.orientation = "vertical" => l.width = l.thickness
        /\ l.thickness >= 1

\* C2: in every state reachable through the edit view's geometry operations
\* (add, drag, resize, X/Y/width/height editors, thickness, orientation), a
\* horizontal line has height = thickness and a vertical line has
\* width = thickness.  (Checked under SpecGeometry.)
C2_LineCoupling ==
    \A i \in DOMAIN items :
        items[i].type = "line" =>
            IF items[i].orientation = "horizontal"
            THEN items[i].height = items[i].thickness
            ELSE items[i].width = items[i].thickness

\* a paper size was chosen, by the overlay or by the header select
PaperChanged == lastOp.name \in {"overlayPaper", "headerPaper"}
DocumentEmpty == items = <<>> /\ selectedId = NoId

\* C3: after any paper-size change the document eventually has an empty item
\* list and selectedId = none; the change itself puts the new size in effect
\* and leaves the reset pending, and the reset runs in a later step, with the
\* paper size already in effect and untouched by it.  (Checked under FairSpec.)
C3_ResetAfterPaperChange ==
    /\ [](PaperChanged => <>DocumentEmpty)
    /\ [][lastOp'.name = "headerPaper" =>
            /\ paperSize' = lastOp'.paper
            /\ timers' = timers + 1
            /\ items' = items /\ selectedId' = selectedId]_vars
    /\ [][lastOp'.name = "resetTimeout" =>
            /\ timers > 0
            /\ paperSize # NoPaper /\ paperSize' = paperSize
            /\ items' = <<>> /\ selectedId' = NoId]_vars

\* C3 witness: the scheduled reset has run after a header paper-size change
\* made with an item in the document
C3_Witness ==
    /\ lastOp.name = "resetTimeout"
    /\ paperSize # NoPaper
    /\ nextId > 1
    /\ DocumentEmpty

\* C4: no step puts a newly selected paper size in effect while an item that
\* was in the document under the previous size stays in it.  (Checked under
\* Spec.)
C4_NoOldItemsUnderNewSize ==
    [][(paperSize # NoPaper /\ paperSize' # paperSize) =>
            \A i \in DOMAIN items' : items'[i].id \notin Ids(items)]_vars

\* C5: a paper-size change and its reset are one uninterrupted step, so that
\* an item added after the new size took effect (the last handler run while
\* the reset is still pending) is not removed by that reset.  (Checked under
\* Spec.)
C5_ChangeAndResetAtomic ==
    [][(lastOp.name = "addItem" /\ timers > 0 /\ lastOp'.name = "resetTimeout")
            => lastOp.id \in Ids(items')]_vars

\* C6: a canvas resize of a line stores max(perpendicular input, 1) in the
\* thickness-axis dimension and in thickness, and takes the length-axis
\* dimension and x/y from the inputs; height 0 on a horizontal line stores
\* height = 1 and thickness = 1.  (Checked under SpecResize.)
C6_LineResize ==
    [][lastOp'.name = "lineResize" =>
        \A in \in {lastOp'} :
        \A old \in {selectedItem(items, in.id)} :
        \A new \in {selectedItem(items', in.id)} :
        \A clamped \in {IF old.orientation = "horizontal"
                         THEN (IF in.height < 1 THEN 1 ELSE in.height)
                         ELSE (IF in.width < 1 THEN 1 ELSE in.width)} :
            /\ new.thickness = clamped
            /\ new.orientation = old.orientation
            /\ old.orientation = "horizontal" =>
                    new.height = clamped /\ new.width = in.width
            /\ old.orientation = "vertical" =>
                    new.width = clamped /\ new.height = in.height
            /\ new.x = in.x /\ new.y = in.y
            /\ (old.orientation = "horizontal" /\ in.height = 0) =>
                    new.height = 1 /\ new.thickness = 1]_vars

\* C6 witness: a horizontal line resized with input height 0
C6_Witness ==
    /\ lastOp.name = "lineResize"
    /\ lastOp.height = 0
    /\ LET l == selectedItem(items, lastOp.id)
       IN  /\ l.orientation = "horizontal"
           /\ l.height = 1 /\ l.thickness = 1
           /\ l.width = lastOp.width

\* C7: deleteItem(id) removes exactly the item with that id, keeps every
\* other item unchanged and in place, clears selectedId if it was id and
\* leaves it alone otherwise.  (Checked under SpecDelete.)
C7_DeleteItem ==
    [][lastOp'.name = "deleteItem" =>
        LET id == lastOp'.id
            kept == {i \in DOMAIN items : items[i].id # id}
        IN  /\ id \notin Ids(items')
            /\ Len(items') = Cardinality(kept)
            /\ \A i \in kept :
                   items'[Cardinality({j \in kept : j <= i})] = items[i]
            /\ selectedId = id => selectedId' = NoId
            /\ selectedId # id => selectedId' = selectedId]_vars

\* C7 witness: the selected item was deleted while another item stays
C7_Witness ==
    /\ lastOp.name = "deleteItem"
    /\ lastOp.found
    /\ lastOp.selected = lastOp.id
    /\ selectedId = NoId
    /\ items # <<>>
    /\ lastOp.id \notin Ids(items)

\* C8: an id that was created and deleted never returns to the item list, and
\* select(id) on it, right after deleteItem(id) or at any later time, leaves
\* the list without it and the selection resolving to none.  (Checked under
\* SpecDelete.)
C8_SelectAfterDelete ==
    [][/\ \A id \in AllIds :
            (id < nextId /\ id \notin Ids(items)) => id \notin Ids(items')
       /\ (/\ lastOp'.name = "setSelectedId"
           /\ \/ lastOp.name = "deleteItem" /\ lastOp.id = lastOp'.id
              \/ lastOp'.id < nextId /\ lastOp'.id \notin Ids(items))
          => /\ selectedId' = lastOp'.id
             /\ items' = items
             /\ lastOp'.id \notin Ids(items')
             /\ selectedItem(items', selectedId') = NoItem]_vars

\* C8 witness: a deleted id is selected while other items are in the list
C8_Witness ==
    /\ lastOp.name = "setSelectedId"
    /\ lastOp.id < nextId
    /\ lastOp.id \notin Ids(items)
    /\ selectedId = lastOp.id
    /\ items # <<>>
    /\ selectedItem(items, selectedId) = NoItem

\* C9: updateItem(id, fields) writes the given fields into the item with that
\* id and nothing else: its other fields, every other item, the order and
\* selectedId stay; with no such item the document is unchanged.  (Checked
\* under SpecUpdate.)
C9_UpdateItem ==
    [][lastOp'.name = "updateItem" =>
        LET id == lastOp'.id
            p == lastOp'.payload
        IN  /\ selectedId' = selectedId
            /\ paperSize' = paperSize /\ mode' = mode
            /\ Len(items') = Len(items)
            /\ \A i \in DOMAIN items :
                   IF items[i].id = id
                   THEN /\ DOMAIN items'[i] = DOMAIN items[i] \cup DOMAIN p
                        /\ \A f \in DOMAIN p : items'[i][f] = p[f]
                        /\ \A f \in DOMAIN items[i] \ DOMAIN p :
                               items'[i][f] = items[i][f]
                   ELSE items'[i] = items[i]
            /\ id \notin Ids(items) => items' = items]_vars

\* C9 witness: the first of two items was moved, the second kept its place
C9_Witness ==
    /\ lastOp.name = "updateItem"
    /\ Len(items) = 2
    /\ lastOp.id = items[1].id
    /\ "x" \in DOMAIN lastOp.payload
    /\ items[1].x = lastOp.payload.x /\ items[1].y = lastOp.payload.y
    /\ items[2].x = DefaultX /\ items[2].y = DefaultY

\* the fields of each variant
VariantFields(type) ==
    {"id", "type", "x", "y", "width", "height"} \cup
    CASE type = "text" -> {"text", "fontSize", "bold", "align"}
      [] type = "data" -> {"column", "fontSize", "bold", "align", "prefix",
                           "suffix", "emptyFallback", "condition"}
      [] type = "rectangle" -> {"background", "borderColor", "borderWidth",
                                "borderRadius"}
      [] type = "line" -> {"color", "thickness", "orientation"}

\* C10: with a paper size chosen, addItem(variant) appends exactly one item
\* of that variant with its default geometry, with an id no earlier item
\* got, keeps the existing items and selects the new one.  (Checked under
\* Spec.)
C10_AddItem ==
    [][lastOp'.name = "addItem" =>
        LET new == items'[Len(items')]
        IN  /\ paperSize # NoPaper
            /\ Len(items') = Len(items) + 1
            /\ SubSeq(items', 1, Len(items)) = items
            /\ new.type = lastOp'.type
            /\ DOMAIN new = VariantFields(new.type)
            /\ new.x = 40 /\ new.y = 40 /\ new.width = 160
            /\ new.height = (IF new.type = "line" THEN 2 ELSE 60)
            /\ new.type = "line" =>
                    new.thickness = 2 /\ new.orientation = "horizontal"
            /\ new.id \notin 1 .. (nextId - 1)
            /\ new.id \notin Ids(items)
            /\ selectedId' = new.id]_vars

\* C10 witness: a second item was added after the first one was deleted
C10_Witness ==
    /\ lastOp.name = "addItem"
    /\ Len(items) = 2
    /\ items[2].id = lastOp.id
    /\ items[2].id = 3
    /\ selectedId = lastOp.id

\* the ids of a list in list order
IdSeq(its) == [i \in DOMAIN its |-> its[i].id]

\* C11: the items in the document are in the order of their creation: a new
\* item is only put behind all others, and no step (add, update, move,
\* resize, select, delete) changes the relative order of the items that
\* stay.  (Checked under SpecOrder.)
C11_OrderKept ==
    /\ [](\A i, j \in DOMAIN items : i < j => items[i].id < items[j].id)
    /\ [][/\ SelectSeq(IdSeq(items), LAMBDA id : id \in Ids(items'))
              = SelectSeq(IdSeq(items'), LAMBDA id : id \in Ids(items))
           /\ \A i, j \in DOMAIN items' :
                 (items'[i].id \notin Ids(items) /\ items'[j].id \in Ids(items))
                    => j < i]_vars

\* C11 witness: after the first of two items was moved and then an item was
\* deleted and another added, the survivors are in creation order
C11_Witness ==
    /\ lastOp.name = "dragStop"
    /\ Len(items) = 2
    /\ lastOp.id = items[1].id
    /\ items[1].x = lastOp.x
    /\ items[1].id = 2 /\ items[2].id = 3

\* C12: the layout reset leaves an empty item list and selectedId = none and
\* does not touch the paper size or the mode.  (Checked under Spec.)
C12_LayoutReset ==
    [][lastOp'.name = "resetDocument" =>
            /\ items' = <<>>
            /\ selectedId' = NoId
            /\ paperSize' = paperSize
            /\ mode' = mode]_vars

\* C12 witness: a document with items was reset in preview mode
C12_Witness ==
    /\ lastOp.name = "resetDocument"
    /\ lastOp.count > 0
    /\ DocumentEmpty
    /\ paperSize # NoPaper
    /\ mode = "preview"

\* the text of a record field as the specification gives it, empty if absent
SourceText(column) ==
    CASE column = <<"na", "mae">> -> <<"yama", "da", " ", "ta", "rou">>
      [] column = <<"nen", "rei">> -> <<"3", "2">>
      [] column = <<"sei", "betsu">> -> <<"dan", "sei">>
      [] column = <<"juu", "sho">> -> <<"tou", "kyou", "to", "chi", "yo", "da", "ku",
                                       "maru", "no", "uchi", "1", "-", "1", "-", "1">>
      [] OTHER -> <<>>

IsSubstring(t, source) ==
    \E i \in 1 .. (Len(source) + 1) :
        /\ i + Len(t) - 1 <= Len(source)
        /\ \A k \in 1 .. Len(t) : source[i + k - 1] = t[k]

\* C13: evaluateCondition returns none when the condition is disabled or its
\* column is unset; otherwise trueText if the operator's predicate holds of
\* the field's text and the compare value (equals, notEquals, contains as
\* substring) and falseText if not.  (Checked under SpecCondition.)
C13_EvaluateCondition ==
    result.done =>
        \A c \in {call.item.condition} :
            IF ~c.enabled \/ c.column = <<>>
            THEN ~result.value.some
            ELSE /\ result.value.some
                 /\ \A holds \in {CASE c.operator = "equals" -> SourceText(c.column) = c.value
                                     [] c.operator = "notEquals" -> SourceText(c.column) # c.value
                                     [] c.operator = "contains" ->
                                            IsSubstring(c.value, SourceText(c.column))} :
                        result.value.text = (IF holds THEN c.trueText ELSE c.falseText)

\* C13 witness: an enabled "contains" condition on the number field matched
C13_Witness ==
    /\ result.done
    /\ call.fn = "evaluateCondition"
    /\ call.item.condition.enabled
    /\ call.item.condition.operator = "contains"
    /\ call.item.condition.column = Nenrei
    /\ call.item.condition.value = <<"3">>
    /\ call.item.condition.trueText = MrText
    /\ result.value = Some(MrText)

\* C14: whenever evaluateCondition yields a present, non-empty string for a
\* data item, renderPreviewText returns exactly that string, whatever the
\* item's column, prefix, suffix and emptyFallback.  (Checked under SpecRender.)
C14_ConditionTakesPrecedence ==
    (result.done /\ call.fn = "renderPreviewText") =>
        \A evaluated \in {evaluateCondition(call.item)} :
            (evaluated.some /\ evaluated.text # <<>>) => result.value = evaluated.text

\* C14 witness: the condition on the sex field matches and its text is shown
\* although the item is bound to the name field and has prefix and suffix
C14_Witness ==
    /\ result.done
    /\ call.fn = "renderPreviewText"
    /\ call.item.column = Namae
    /\ call.item.prefix = <<"[">>
    /\ call.item.suffix = <<"]">>
    /\ call.item.condition = [enabled |-> TRUE, column |-> Seibetsu, operator |-> "equals",
                               value |-> <<"dan", "sei">>, trueText |-> MrText,
                               falseText |-> MsText]
    /\ result.value = MrText

\* C15: whenever the condition result is absent or the empty string,
\* renderPreviewText returns emptyFallback if the item's column is unset,
\* names no field of the record or resolves to an empty value, and
\* prefix + value + suffix otherwise; never the empty condition text.
\* (Checked under SpecRender.)
C15_FallThrough ==
    (result.done /\ call.fn = "renderPreviewText") =>
        \A item \in {call.item} :
            (\/ ~item.condition.enabled
             \/ item.condition.column = <<>>
             \/ evaluateCondition(item) = Some(<<>>))
            => result.value =
                   IF \/ item.column = <<>>
                      \/ item.column \notin {Namae, Nenrei, Seibetsu, Juusho}
                      \/ SourceText(item.column) = <<>>
                   THEN item.emptyFallback
                   ELSE item.prefix \o SourceText(item.column) \o item.suffix

\* C15 witness: the condition matches with an empty trueText and the bound
\* number field is rendered between prefix and suffix
C15_Witness ==
    /\ result.done
    /\ call.fn = "renderPreviewText"
    /\ call.item.condition.enabled
    /\ call.item.condition.column = Seibetsu
    /\ call.item.condition.operator = "equals"
    /\ call.item.condition.value = <<"dan", "sei">>
    /\ call.item.condition.trueText = <<>>
    /\ call.item.column = Nenrei
    /\ call.item.prefix = <<"[">>
    /\ call.item.suffix = <<"]">>
    /\ result.value = <<"[", "3", "2", "]">>

\* the tokens {name} of a text: an opening brace, a non-empty name without
\* braces, a closing brace
IsToken(text, i, j) ==
    /\ i \in DOMAIN text /\ j \in DOMAIN text
    /\ text[i] = "{" /\ text[j] = "}"
    /\ j > i + 1
    /\ \A k \in (i + 1) .. (j - 1) : text[k] \notin {"{", "}"}

TokenName(text, i, j) == SubSeq(text, i + 1, j - 1)

IsKnownField(name) == name \in {Namae, Nenrei, Seibetsu, Juusho}

\* a name without its leading and trailing spaces
Trimmed(name) ==
    LET solid == {k \in DOMAIN name : name[k] # " "}
    IN  IF solid = {} THEN <<>>
        ELSE SubSeq(name, CHOOSE k \in solid : \A m \in solid : k <= m,
                          CHOOSE k \in solid : \A m \in solid : k >= m)

IsKnownTrimmed(name) == IsKnownField(Trimmed(name))

\* the token from i to j is one that gets replaced
IsReplaced(text, i, j, Known(_)) ==
    IsToken(text, i, j) /\ Known(TokenName(text, i, j))

\* what position k of the text contributes when exactly the tokens whose
\* name is Known are replaced by their field's text
Contribution(text, k, Known(_)) ==
    IF text[k] = "{"
       /\ \E j \in (k + 2) .. Len(text) : text[j] = "}" /\ IsReplaced(text, k, j, Known)
    THEN LET j == CHOOSE m \in (k + 2) .. Len(text) :
                      text[m] = "}" /\ IsReplaced(text, k, m, Known)
         IN  SourceText(Trimmed(TokenName(text, k, j)))
    ELSE IF \E i \in 1 .. (k - 1) :
                /\ text[i] = "{"
                /\ \E j \in k .. Len(text) : text[j] = "}" /\ IsReplaced(text, i, j, Known)
    THEN <<>>
    ELSE <<text[k]>>

Substituted(text, Known(_)) ==
    Flatten([k \in DOMAIN text |-> Contribution(text, k, Known)])

\* C16 as stated: each token whose name is a known field is replaced by the
\* field's text, every other token and all text outside tokens is unchanged.
C16_PlaceholdersExactName ==
    (result.done /\ call.fn = "injectDbPlaceholders") =>
        result.value = Substituted(call.text, IsKnownField)

\* C16 amended: each token whose name, without its leading and trailing
\* spaces, is a known field is replaced by the field's text; every other
\* token and all text outside tokens is unchanged.  (Checked under
\* SpecPlaceholders.)
C16_PlaceholdersTrimmedName ==
    (result.done /\ call.fn = "injectDbPlaceholders") =>
        result.value = Substituted(call.text, IsKnownTrimmed)

\* C16 witness: two tokens, the first with a space before the field name
C16_Witness ==
    /\ result.done
    /\ call.fn = "injectDbPlaceholders"
    /\ call.text = <<"{", " ", "na", "mae", "}", "{", "}">>
    /\ result.value = <<"yama", "da", " ", "ta", "rou", "{", "}">>

\* the document lifecycle state
Lifecycle ==
    IF paperSize = NoPaper THEN "Uninitialized"
    ELSE IF mode = "edit" THEN "Editing" ELSE "Previewing"

PreviewView == mode = "preview" /\ paperSize # NoPaper

\* C17: the lifecycle starts Uninitialized; no view is shown without a paper
\* size; from Uninitialized only Editing is entered; Previewing is entered
\* only from Editing by the mode toggle; the paper size never becomes unset.
C17_Lifecycle ==
    /\ Lifecycle = "Uninitialized"
    /\ [](paperSize = NoPaper => (~EditView /\ ~PreviewView))
    /\ [][/\ (Lifecycle = "Uninitialized" /\ Lifecycle' # "Uninitialized")
                => Lifecycle' = "Editing"
          /\ (Lifecycle # "Previewing" /\ Lifecycle' = "Previewing")
                => (Lifecycle = "Editing" /\ lastOp'.name = "setMode")
          /\ paperSize # NoPaper => paperSize' # NoPaper]_vars

PanSteps == {"canvasMouseDown", "mouseMove", "mouseUp"}

LengthOf(line) == IF line.orientation = "horizontal" THEN line.width ELSE line.height
AcrossOf(line) == IF line.orientation = "horizontal" THEN line.height ELSE line.width

\* C19: switching a line to the other orientation carries the length over to
\* the new length axis, puts the old thickness-axis dimension, clamped to at
\* least 1, on the new thickness axis, and changes no other field.
C19_OrientationSwitch ==
    [][lastOp'.name = "setOrientation" =>
            \A old \in {selectedItem(items, lastOp'.id)} :
            \A new \in {selectedItem(items', lastOp'.id)} :
                /\ new.orientation = lastOp'.orientation
                /\ new.orientation # old.orientation
                /\ LengthOf(new) = LengthOf(old)
                /\ AcrossOf(new) = Max(AcrossOf(old), 1)
                /\ new.x = old.x /\ new.y = old.y
                /\ new.color = old.color
                /\ new.id = old.id /\ new.type = old.type]_vars

\* C20: in every reachable state of the editor (add item, click-select,
\* delete of the selected item, layout reset, paper-size change) selectedId
\* is none or the id of an item of the list.  (Checked under Spec.)
C20_SelectionValid == selectedId = NoId \/ selectedId \in Ids(items)

\* C20 witness: the selected one of two items was deleted, the other remains
\* and nothing is selected
C20_Witness ==
    /\ lastOp.name = "delete"
    /\ Len(items) = 1
    /\ lastOp.id \notin Ids(items)
    /\ lastOp.id < items[1].id
    /\ selectedId = NoId

\* C21: while no paper size has been chosen the item list is empty and
\* selectedId is none; handleAddItem called with no paper size changes
\* neither the items nor the selection.  (Checked under SpecAdd.)
C21_NoItemsWithoutPaper ==
    /\ [](paperSize = NoPaper => (items = <<>> /\ selectedId = NoId))
    /\ [][(lastOp'.name = "handleAddItem" /\ paperSize = NoPaper)
            => (items' = items /\ selectedId' = selectedId)]_vars

\* C21 witness: handleAddItem has just been called with no paper size chosen
C21_Witness ==
    /\ lastOp.name = "handleAddItem"
    /\ lastOp.paper = NoPaper
    /\ paperSize = NoPaper
    /\ items = <<>>
    /\ selectedId = NoId

====
